---- MODULE Spec2Model ----
(***************************************************************************)
(* Camera Manager for Maya (dimogu_final1_assignment.py).                  *)
(*                                                                         *)
(* The tool is a set of UI callbacks over maya.cmds.  The model keeps the  *)
(* part of the host scene the callbacks read and write (camera shapes,     *)
(* the name of each shape's parent transform, the shape's renderable flag  *)
(* and the lock flag of the nine transform channels), the contents of the  *)
(* "cameraList" textScrollList, and a record of what the last callback     *)
(* did (the host commands it issued, how it ended).                        *)
(*                                                                         *)
(* Host commands are the environment: a command either has its documented  *)
(* effect or raises an exception and leaves the scene as it was (a file    *)
(* import may raise after it has already added nodes).  A command that is  *)
(* given the name of a node that does not exist always raises.  The host   *)
(* keeps node names unique by appending a number.  Left out: the names of  *)
(* the shape nodes, the host's own selection and the attributes that       *)
(* show_camera_info only reads.                                            *)
(*                                                                         *)
(* A handler is one step; event_loop is the window taking the next press   *)
(* once the handler has ended.                                             *)
(***************************************************************************)
EXTENDS Integers, Sequences, FiniteSets, TLC

\* ---------------------------------------------------------------- bounds
MaxCams == 2        \* camera shapes in the scene at any time
MaxFails == 1       \* spontaneous host exceptions in one behaviour
MaxNameLen == 7     \* longest transform name a duplicate is made from

\* ------------------------------------------------------- program constants
Attrs == <<"translate", "rotate", "scale">>
Axes == <<"X", "Y", "Z">>
NumChannels == 9
\* channel i in the order of the nested loops of toggle_lock_camera
Channel(i) == Attrs[((i - 1) \div 3) + 1] \o Axes[((i - 1) % 3) + 1]

\* ------------------------------------------------------------ environment
CamIds == 1..MaxCams                       \* identities of camera shape nodes
Others == {"pCube1"}                       \* scene objects that are no cameras
TypedNames == {"shotCam", "pCube1"}        \* texts typed into the prompt
ExcKinds == {"RuntimeError", "ValueError"} \* ValueError: an Exception that is no RuntimeError
Digits == <<"1", "2", "3", "4", "5", "6", "7", "8", "9">>
AllUnlocked == [i \in 1..NumChannels |-> FALSE]
\* the locks the artist left on persp when the tool is opened: none, or
\* rotateY alone
InitLocks == {AllUnlocked, [i \in 1..NumChannels |-> i = 5]}

VARIABLES scene, cameraList, last, fails
vars == <<scene, cameraList, last, fails>>

\* ------------------------------------------------------------ host queries
NamesOf(s) == {s[c].name : c \in DOMAIN s}
\* the host's own test that a node name is in use
Taken(s, n) == n \in NamesOf(s) \cup Others
\* a test that looks at the camera transforms alone
ObjExistsCamerasOnly(s, n) == n \in NamesOf(s)
\* cmds.objExists(new_name), as rename_camera calls it
ObjExists(s, n) == Taken(s, n)
\* the camera shapes under the transform called n
ShapesOf(s, n) == {c \in DOMAIN s : s[c].name = n}
ShapeOf(s, n) == CHOOSE c \in DOMAIN s : s[c].name = n

RECURSIVE SortedIds(_)
SortedIds(S) ==
    IF S = {} THEN <<>>
    ELSE LET m == CHOOSE x \in S : \A y \in S : x <= y
         IN <<m>> \o SortedIds(S \ {m})
\* cmds.ls(type="camera")
Ls(s) == SortedIds(DOMAIN s)
\* cmds.listRelatives(c, parent=True)[0]
Parent(s, c) == s[c].name

\* the name the host gives a node asked to be called base<number>
UniqueName(s, base) ==
    LET free == {k \in 1..Len(Digits) : ~Taken(s, base \o Digits[k])}
        k == CHOOSE x \in free : \A y \in free : x <= y
    IN base \o Digits[k]
FreeId(s) == CHOOSE c \in CamIds \ DOMAIN s : \A d \in CamIds \ DOMAIN s : c <= d

\* ----------------------------------------------------------- host commands
Extend(s, c, rec) == [d \in DOMAIN s \cup {c} |-> IF d = c THEN rec ELSE s[d]]
Remove(s, C) == [d \in DOMAIN s \ C |-> s[d]]
\* cmds.camera()
HostCamera(s) ==
    Extend(s, FreeId(s),
           [name |-> UniqueName(s, "camera"), renderable |-> 0, lock |-> AllUnlocked])
\* cmds.delete(n)
HostDelete(s, n) == Remove(s, ShapesOf(s, n))
\* cmds.rename(old, new); hash: new ends in "#", which the host replaces by
\* a number that makes the name unique.  A plain name that is taken is made
\* unique by the host in the same way.
HostRename(s, old, new, hash) ==
    LET final == IF hash \/ Taken(s, new) THEN UniqueName(s, new) ELSE new
    IN [d \in DOMAIN s |-> IF s[d].name = old THEN [s[d] EXCEPT !.name = final] ELSE s[d]]
\* cmds.duplicate(n, renameChildren=True)[0]
DuplicateName(s, n) == UniqueName(s, n)
HostDuplicate(s, n) ==
    Extend(s, FreeId(s), [s[ShapeOf(s, n)] EXCEPT !.name = DuplicateName(s, n)])
\* cmds.file(path, i=True, ...): the file holds one camera called shotCam,
\* whose renderable flag is r
HostImport(s, r) ==
    LET n == IF Taken(s, "shotCam") THEN UniqueName(s, "shotCam") ELSE "shotCam"
    IN Extend(s, FreeId(s), [name |-> n, renderable |-> r, lock |-> AllUnlocked])

\* ------------------------------------------------------------ the list
\* textScrollList(query=True, selectItem=True) for the selected rows sel
RECURSIVE SelectItem(_, _)
SelectItem(lst, sel) ==
    IF sel = {} THEN <<>>
    ELSE LET m == CHOOSE x \in sel : \A y \in sel : x <= y
         IN <<lst[m]>> \o SelectItem(lst, sel \ {m})
Rows(lst) == SUBSET (1..Len(lst))

\* list_cameras issues ls, removeAll, one listRelatives per camera and one
\* append per camera; at is the command that raises (0: none): 1 ls,
\* 2 removeAll, 3 a listRelatives, 3 + k the k-th append.
ListFailPoints(s) == IF DOMAIN s = {} THEN 2 ELSE 3 + Cardinality(DOMAIN s)
list_cameras(s, lst, at) ==
    LET cameras == Ls(s)
        names == [i \in 1..Len(cameras) |-> Parent(s, cameras[i])]
    IN IF at = 0 THEN names
       ELSE IF at <= 2 THEN lst
       ELSE IF at = 3 THEN <<>>
       ELSE SubSeq(names, 1, at - 4)

\* ------------------------------------------------------------ failures
\* A handler's failable host commands are numbered from 1 in the order it
\* issues them; a choice names the one that raises (at = 0: none does) and
\* the class of the exception.
NoFail == [at |-> 0, kind |-> "none"]
FailsAt(S) == {[at |-> i, kind |-> k] : i \in S, k \in ExcKinds}
FailsUpTo(n) == {NoFail} \cup FailsAt(1..n)
\* a command on the node called cam raises by itself when no such node
\* exists; only an exception the host raises on its own is counted in fails
Missing(cam) == ShapesOf(scene, cam) = {}
TryFails(forced, n) == IF forced THEN FailsAt({1}) ELSE FailsUpTo(n)
Charge(f, forced) == IF f.at = 0 \/ forced THEN 0 ELSE 1
Budget(n) == fails + n <= MaxFails

\* the exception of a try block ends in the error dialog when the except
\* clause catches its class, and leaves the handler otherwise
Caught(kind, onlyRuntime) == ~onlyRuntime \/ kind = "RuntimeError"
Ending(f, onlyRuntime) ==
    IF f.at = 0 THEN "ok" ELSE IF Caught(f.kind, onlyRuntime) THEN "dialog" ELSE "escaped"
Shown(f, onlyRuntime) ==
    IF f.at # 0 /\ Caught(f.kind, onlyRuntime) THEN f.kind ELSE "none"

\* what the last handler did: the first selected name, how the handler
\* ended, the exception that ended it, the exception its error dialog
\* carried, the exceptions it dropped, the host commands it issued
Report(op, cam, outcome, raised, shown, discarded, calls) ==
    [op |-> op, cam |-> cam, outcome |-> outcome, raised |-> raised,
     shown |-> shown, discarded |-> discarded, calls |-> calls]
Quiet(op, cam, outcome, calls) == Report(op, cam, outcome, "none", "none", 0, calls)
\* the window waits for the next button press
Waiting == Quiet("idle", "", "ok", <<>>)
Idle == last = Waiting
Refreshed(reached) == IF reached THEN <<<<"list_cameras">>>> ELSE <<>>

Init ==
    /\ \E l \in InitLocks :
          scene = (1 :> [name |-> "persp", renderable |-> 1, lock |-> l])
    /\ cameraList = list_cameras(scene, <<>>, 0)
    /\ last = Quiet("cam_manager_ui", "", "ok", Refreshed(TRUE))
    /\ fails = 0

\* ------------------------------------------------------------ handlers
\* 1: camera, 2..: list_cameras; nothing is caught
create_camera ==
    /\ Idle
    /\ Cardinality(DOMAIN scene) < MaxCams
    /\ \E f \in FailsUpTo(1 + ListFailPoints(HostCamera(scene))) :
          LET s1 == IF f.at = 1 THEN scene ELSE HostCamera(scene)
          IN /\ Budget(Charge(f, FALSE))
             /\ scene' = s1
             /\ cameraList' = IF f.at = 1 THEN cameraList
                              ELSE list_cameras(s1, cameraList, IF f.at = 0 THEN 0 ELSE f.at - 1)
             /\ last' = Report("create", "", IF f.at = 0 THEN "ok" ELSE "escaped",
                               f.kind, "none", 0, <<<<"camera">>>> \o Refreshed(f.at # 1))
             /\ fails' = fails + Charge(f, FALSE)

\* what confirmDialog returns: a button, or "dismiss" when the dialog is closed
Answers == {"Yes", "No", "dismiss"}
\* a test that takes every answer but "No" for consent
ConfirmedUnlessNo(confirm) == confirm # "No"
\* if confirm == "Yes"
Confirmed(confirm) == confirm = "Yes"

\* 1: delete, 2..: list_cameras; RuntimeError is caught
delete_camera ==
    /\ Idle
    /\ \E sel \in Rows(cameraList) :
       LET selected == SelectItem(cameraList, sel) IN
       \/ /\ selected = <<>>
          /\ last' = Quiet("delete", "", "noop", <<>>)
          /\ UNCHANGED <<scene, cameraList, fails>>
       \/ /\ selected # <<>>
          /\ \E confirm \in Answers :
                /\ ~Confirmed(confirm)
                /\ last' = Quiet("delete", selected[1], "cancel",
                                 <<<<"confirmDialog", selected[1], confirm>>>>)
          /\ UNCHANGED <<scene, cameraList, fails>>
       \/ /\ selected # <<>>
          /\ LET cam == selected[1]
                 forced == Missing(cam)
             IN \E confirm \in Answers,
                   f \in TryFails(forced, 1 + ListFailPoints(HostDelete(scene, cam))) :
                   LET s1 == IF f.at = 1 THEN scene ELSE HostDelete(scene, cam)
                   IN /\ Confirmed(confirm)
                      /\ Budget(Charge(f, forced))
                      /\ scene' = s1
                      /\ cameraList' =
                            IF f.at = 1 THEN cameraList
                            ELSE list_cameras(s1, cameraList, IF f.at = 0 THEN 0 ELSE f.at - 1)
                      /\ last' = Report("delete", cam, Ending(f, TRUE), f.kind, Shown(f, TRUE), 0,
                                        <<<<"confirmDialog", cam, confirm>>, <<"delete", cam>>>>
                                        \o Refreshed(f.at # 1))
                      /\ fails' = fails + Charge(f, forced)

\* 1: rename, 2..: list_cameras; RuntimeError is caught
rename_camera ==
    /\ Idle
    /\ \E sel \in Rows(cameraList) :
       LET selected == SelectItem(cameraList, sel) IN
       \/ /\ selected = <<>>
          /\ last' = Quiet("rename", "", "noop", <<>>)
          /\ UNCHANGED <<scene, cameraList, fails>>
       \/ /\ selected # <<>>
          /\ last' = Quiet("rename", selected[1], "cancel", <<<<"promptDialog", "Cancel">>>>)
          /\ UNCHANGED <<scene, cameraList, fails>>
       \/ /\ selected # <<>>
          /\ \E new_name \in TypedNames :
                IF ObjExists(scene, new_name) THEN
                   /\ last' = Quiet("rename", selected[1], "exists",
                                    <<<<"promptDialog", "OK", new_name>>,
                                      <<"confirmDialog", "already exists", new_name>>>>)
                   /\ UNCHANGED <<scene, cameraList, fails>>
                ELSE
                   LET cam == selected[1]
                       forced == Missing(cam)
                   IN \E f \in TryFails(forced, 1 + ListFailPoints(scene)) :
                         LET s1 == IF f.at = 1 THEN scene
                                   ELSE HostRename(scene, cam, new_name, FALSE)
                         IN /\ Budget(Charge(f, forced))
                            /\ scene' = s1
                            /\ cameraList' =
                                  IF f.at = 1 THEN cameraList
                                  ELSE list_cameras(s1, cameraList,
                                                    IF f.at = 0 THEN 0 ELSE f.at - 1)
                            /\ last' = Report("rename", cam, Ending(f, TRUE), f.kind,
                                              Shown(f, TRUE), 0,
                                              <<<<"promptDialog", "OK", new_name>>,
                                                <<"rename", cam, new_name>>>>
                                              \o Refreshed(f.at # 1))
                            /\ fails' = fails + Charge(f, forced)

\* the setAttr calls of toggle_lock_camera that have run: channels 1..done
\* carry the new lock state
LockChannels(lock, done, value) ==
    [i \in 1..NumChannels |-> IF i <= done THEN value ELSE lock[i]]
SetLock(s, c, lock) == [s EXCEPT ![c].lock = lock]
\* the lock setAttr calls completed when command f.at raises
LocksDone(f) ==
    IF f.at = 0 \/ f.at = NumChannels + 2 THEN NumChannels
    ELSE IF f.at = 1 THEN 0 ELSE f.at - 2

\* 1: getAttr, 2..10: the setAttr calls, 11: inViewMessage; Exception is caught
toggle_lock_camera ==
    /\ Idle
    /\ \E sel \in Rows(cameraList) :
       LET selected == SelectItem(cameraList, sel) IN
       \/ /\ selected = <<>>
          /\ last' = Quiet("toggle_lock", "", "warning", <<>>)
          /\ UNCHANGED <<scene, cameraList, fails>>
       \/ /\ selected # <<>>
          /\ LET cam == selected[1]
                 forced == Missing(cam)
             IN \E f \in TryFails(forced, NumChannels + 2) :
                   /\ Budget(Charge(f, forced))
                   /\ scene' = IF f.at = 1 THEN scene
                               ELSE LET c == ShapeOf(scene, cam)
                                        locked == scene[c].lock[1]
                                    IN SetLock(scene, c,
                                               LockChannels(scene[c].lock, LocksDone(f), ~locked))
                   /\ last' = Report("toggle_lock", cam, Ending(f, FALSE), f.kind,
                                     Shown(f, FALSE), 0,
                                     <<<<"getAttr", cam, Channel(1)>>>>
                                     \o [i \in 1..(IF f.at \in 2..(NumChannels + 1)
                                                   THEN f.at - 1 ELSE LocksDone(f))
                                           |-> <<"setAttr", cam, Channel(i)>>])
                   /\ fails' = fails + Charge(f, forced)
                   /\ UNCHANGED cameraList

Files == {"cams.ma"}
FileRenderable == {0, 1}
\* 1: select, 2: file, 3: inViewMessage; Exception is caught
export_cameras ==
    /\ Idle
    /\ \E sel \in Rows(cameraList) :
       LET selected == SelectItem(cameraList, sel) IN
       \/ /\ selected = <<>>
          /\ last' = Quiet("export", "", "warning", <<>>)
          /\ UNCHANGED <<scene, cameraList, fails>>
       \/ /\ selected # <<>>
          /\ last' = Quiet("export", selected[1], "cancel", <<<<"fileDialog2">>>>)
          /\ UNCHANGED <<scene, cameraList, fails>>
       \/ /\ selected # <<>>
          /\ LET forced == \E i \in 1..Len(selected) : Missing(selected[i])
             IN \E path \in Files, f \in TryFails(forced, 3) :
                   /\ Budget(Charge(f, forced))
                   /\ last' = Report("export", selected[1], Ending(f, FALSE), f.kind,
                                     Shown(f, FALSE), 0,
                                     <<<<"fileDialog2">>, <<"select", selected>>>>
                                     \o (IF f.at = 1 THEN <<>>
                                         ELSE <<<<"file", path, "exportSelected">>>>))
                   /\ fails' = fails + Charge(f, forced)
                   /\ UNCHANGED <<scene, cameraList>>

\* 1: file raises before it adds a node, 2: file raises after it added the
\* nodes, 3..: list_cameras, then inViewMessage; Exception is caught
import_cameras ==
    \/ /\ Idle
       /\ last' = Quiet("import", "", "cancel", <<<<"fileDialog2">>>>)
       /\ UNCHANGED <<scene, cameraList, fails>>
    \/ /\ Idle
       /\ Cardinality(DOMAIN scene) < MaxCams
       /\ \E path \in Files, r \in FileRenderable :
             LET lp == ListFailPoints(HostImport(scene, r)) IN
             \E f \in FailsUpTo(2 + lp + 1) :
                LET s1 == IF f.at = 1 THEN scene ELSE HostImport(scene, r)
                IN /\ Budget(Charge(f, FALSE))
                   /\ scene' = s1
                   /\ cameraList' =
                         IF f.at \in {1, 2} THEN cameraList
                         ELSE IF f.at = 0 \/ f.at = 2 + lp + 1
                              THEN list_cameras(s1, cameraList, 0)
                              ELSE list_cameras(s1, cameraList, f.at - 2)
                   /\ last' = Report("import", "", Ending(f, FALSE), f.kind, Shown(f, FALSE), 0,
                                     <<<<"fileDialog2">>, <<"file", path, "i">>>>
                                     \o Refreshed(f.at \notin {1, 2}))
                   /\ fails' = fails + Charge(f, FALSE)

\* the loop of set_renderable_camera: setAttr(shape.renderable, 0) for every
\* camera shape; the shapes in dropped raise, and the loop passes over them
ClearRenderable(s, dropped) ==
    [c \in DOMAIN s |-> IF c \in dropped THEN s[c] ELSE [s[c] EXCEPT !.renderable = 0]]
SetRenderable(s, c) == [s EXCEPT ![c].renderable = 1]
Renderable(s) == {c \in DOMAIN s : s[c].renderable = 1}

\* ls outside every try; then the loop; then 1: listRelatives, 2: setAttr,
\* 3: inViewMessage, of which Exception is caught
set_renderable_camera ==
    /\ Idle
    /\ \E sel \in Rows(cameraList) :
       LET selected == SelectItem(cameraList, sel) IN
       \/ /\ selected = <<>>
          /\ last' = Quiet("set_renderable", "", "warning", <<>>)
          /\ UNCHANGED <<scene, cameraList, fails>>
       \/ /\ selected # <<>>
          /\ Budget(1)
          /\ \E k \in ExcKinds :
                last' = Report("set_renderable", selected[1], "escaped", k, "none", 0,
                               <<<<"ls">>>>)
          /\ fails' = fails + 1
          /\ UNCHANGED <<scene, cameraList>>
       \/ /\ selected # <<>>
          /\ LET cam == selected[1]
                 forced == Missing(cam)
             IN \E dropped \in SUBSET DOMAIN scene, f \in TryFails(forced, 3) :
                   LET s1 == ClearRenderable(scene, dropped)
                       n == Cardinality(dropped) + Charge(f, forced)
                   IN /\ Budget(n)
                      /\ scene' = IF f.at \in {1, 2} THEN s1
                                  ELSE SetRenderable(s1, ShapeOf(s1, cam))
                      /\ last' = Report("set_renderable", cam, Ending(f, FALSE), f.kind,
                                        Shown(f, FALSE), Cardinality(dropped),
                                        <<<<"ls">>>>
                                        \o [i \in 1..Cardinality(DOMAIN scene)
                                              |-> <<"setAttr", Parent(scene, Ls(scene)[i]), "0">>]
                                        \o (IF f.at = 1 THEN <<>> ELSE <<<<"setAttr", cam, "1">>>>))
                      /\ fails' = fails + n
                      /\ UNCHANGED cameraList

\* 1: duplicate, 2: rename, 3..: list_cameras, then inViewMessage;
\* Exception is caught
duplicate_camera ==
    /\ Idle
    /\ \E sel \in Rows(cameraList) :
       LET selected == SelectItem(cameraList, sel) IN
       \/ /\ selected = <<>>
          /\ last' = Quiet("duplicate", "", "warning", <<>>)
          /\ UNCHANGED <<scene, cameraList, fails>>
       \/ /\ selected # <<>>
          /\ Missing(selected[1])
          /\ \E f \in FailsAt({1}) :
                last' = Report("duplicate", selected[1], Ending(f, FALSE), f.kind,
                               Shown(f, FALSE), 0, <<<<"duplicate", selected[1]>>>>)
          /\ UNCHANGED <<scene, cameraList, fails>>
       \/ /\ selected # <<>>
          /\ ~Missing(selected[1])
          /\ Cardinality(DOMAIN scene) < MaxCams
          /\ Len(selected[1]) <= MaxNameLen
          /\ LET cam == selected[1]
                 s1 == HostDuplicate(scene, cam)
                 new_cam == DuplicateName(scene, cam)
                 s2 == HostRename(s1, new_cam, cam \o "_copy", TRUE)
                 lp == ListFailPoints(s2)
             IN \E f \in FailsUpTo(2 + lp + 1) :
                   /\ Budget(Charge(f, FALSE))
                   /\ scene' = IF f.at = 1 THEN scene ELSE IF f.at = 2 THEN s1 ELSE s2
                   /\ cameraList' =
                         IF f.at \in {1, 2} THEN cameraList
                         ELSE IF f.at = 0 \/ f.at = 2 + lp + 1
                              THEN list_cameras(s2, cameraList, 0)
                              ELSE list_cameras(s2, cameraList, f.at - 2)
                   /\ last' = Report("duplicate", cam, Ending(f, FALSE), f.kind,
                                     Shown(f, FALSE), 0,
                                     <<<<"duplicate", cam>>>>
                                     \o (IF f.at = 1 THEN <<>>
                                         ELSE <<<<"rename", new_cam, cam \o "_copy#">>>>)
                                     \o Refreshed(f.at \notin {1, 2}))
                   /\ fails' = fails + Charge(f, FALSE)

\* 1: listRelatives, 2..7: the getAttr calls; Exception is caught; the
\* handler ends in the Camera Info dialog
show_camera_info ==
    /\ Idle
    /\ \E sel \in Rows(cameraList) :
       LET selected == SelectItem(cameraList, sel) IN
       \/ /\ selected = <<>>
          /\ last' = Quiet("show_info", "", "warning", <<>>)
          /\ UNCHANGED <<scene, cameraList, fails>>
       \/ /\ selected # <<>>
          /\ LET cam == selected[1]
                 forced == Missing(cam)
             IN \E f \in TryFails(forced, 7) :
                   /\ Budget(Charge(f, forced))
                   /\ last' = Report("show_info", cam, Ending(f, FALSE), f.kind,
                                     Shown(f, FALSE), 0,
                                     <<<<"listRelatives", cam>>>>
                                     \o (IF f.at = 0
                                         THEN <<<<"confirmDialog", "Camera Info", cam>>>>
                                         ELSE <<>>))
                   /\ fails' = fails + Charge(f, forced)
                   /\ UNCHANGED <<scene, cameraList>>

\* the handler has returned (its dialogs are closed, an exception that left
\* it is reported by the host's script editor): the window takes the next press
event_loop ==
    /\ ~Idle
    /\ last' = Waiting
    /\ UNCHANGED <<scene, cameraList, fails>>

Next == create_camera \/ delete_camera \/ rename_camera \/ toggle_lock_camera
        \/ export_cameras \/ import_cameras \/ set_renderable_camera
        \/ duplicate_camera \/ show_camera_info \/ event_loop

Spec == Init /\ [][Next]_vars

\* ================================================================ claims
Count(lst, n) == Cardinality({i \in 1..Len(lst) : lst[i] = n})
Listed(lst) == {lst[i] : i \in 1..Len(lst)}
\* one entry per camera shape, the name of the shape's parent transform
ListShowsScene ==
    \A n \in NamesOf(scene) \cup Listed(cameraList) :
       Count(cameraList, n) = Cardinality(ShapesOf(scene, n))
Returned == last.outcome # "escaped"
Issued(rep, cmd) == {i \in 1..Len(rep.calls) : rep.calls[i][1] = cmd}

\* C1: whenever create, delete, rename, import or duplicate has returned, the
\* camera list holds exactly one entry per camera shape of the scene, the
\* name of its parent transform, also when a host command of the handler
\* failed part-way.
C1_ListShowsSceneOnReturn ==
    (last.op \in {"create", "delete", "rename", "import", "duplicate"} /\ Returned)
       => ListShowsScene

\* C2: in every handler, a host command that raises ends the handler in the
\* modal error dialog carrying that exception; no exception leaves a handler
\* and none is dropped.
C2_ExceptionsReachDialog ==
    /\ last.raised # "none" => (last.outcome = "dialog" /\ last.shown = last.raised)
    /\ last.discarded = 0

\* C3: a host delete issued by Delete Camera comes after a confirmation
\* dialog of the same press that names the camera and was answered "Yes";
\* a press whose dialog was answered "No" or dismissed leaves the scene and
\* the list as they were.
DeleteStep ==
    last'.op = "delete" =>
       /\ \A i \in Issued(last', "delete") :
             \E j \in 1..(i - 1) :
                last'.calls[j] = <<"confirmDialog", last'.calls[i][2], "Yes">>
       /\ (\E j \in Issued(last', "confirmDialog") : last'.calls[j][3] \in {"No", "dismiss"})
             => UNCHANGED <<scene, cameraList>>
C3_DeleteGatedByConfirmation == [][DeleteStep]_vars
C3_Witness ==
    /\ last.op = "delete" /\ last.outcome = "ok"
    /\ Issued(last, "delete") # {}
    /\ last.cam \notin NamesOf(scene) \cup Listed(cameraList)

\* C4: a rename whose typed name is the name of an object of the scene ends
\* in the "already exists" dialog, issues no host rename and changes neither
\* a node name nor the list; and no rename makes two cameras share a name.
UniqueNames(s) == \A c, d \in DOMAIN s : s[c].name = s[d].name => c = d
Typed(rep) == {rep.calls[i][3] : i \in {j \in Issued(rep, "promptDialog") :
                                           Len(rep.calls[j]) = 3}}
RenameStep ==
    last'.op = "rename" =>
       /\ (\E n \in Typed(last') : Taken(scene, n))
             => /\ last'.outcome = "exists"
                /\ Issued(last', "rename") = {}
                /\ \E i \in Issued(last', "confirmDialog") :
                      last'.calls[i][2] = "already exists"
                /\ UNCHANGED <<scene, cameraList>>
       /\ UniqueNames(scene) => UniqueNames(scene')
C4_RenameRejectsClash == [][RenameStep]_vars
C4_Witness ==
    /\ last.op = "rename" /\ last.outcome = "exists"
    /\ \E n \in Typed(last) : n \in NamesOf(scene) /\ n # last.cam
    /\ Cardinality(DOMAIN scene) > 1

\* C5: when Set as Renderable reports "<cam> is now the renderable camera",
\* the selected camera's shape is renderable and no other camera shape is;
\* when it ends in the error dialog, the renderable cameras are those of
\* before the press.
RenderableStep ==
    last'.op = "set_renderable" =>
       /\ last'.outcome = "ok" => Renderable(scene') = ShapesOf(scene', last'.cam)
       /\ last'.outcome = "dialog" => Renderable(scene') = Renderable(scene)
C5_SelectedIsTheRenderable == [][RenderableStep]_vars

\* C6: after Lock/Unlock on a selected camera, its nine channels all carry
\* the negation of translateX's lock state of before the press, or, when the
\* handler ended in the error dialog, are all as before; no other camera's
\* locks change.
LockStep ==
    (last'.op = "toggle_lock" /\ ~Missing(last'.cam)) =>
       LET c == ShapeOf(scene, last'.cam)
       IN /\ \/ \A i \in 1..NumChannels : scene'[c].lock[i] = ~scene[c].lock[1]
             \/ last'.outcome = "dialog" /\ scene'[c].lock = scene[c].lock
          /\ \A d \in DOMAIN scene \ {c} : scene'[d].lock = scene[d].lock
C6_LockAllOrNothing == [][LockStep]_vars
====
